---- MODULE Spec2Model ----
(***************************************************************************)
(* Model of the tic-tac-toe backend (src/backend/src/main.rs): the rules   *)
(* engine (check_status, try_move), the solver (minimax), the AI driver    *)
(* (do_optimal_move), the two test drivers of mod tests, and the session   *)
(* registry behind its tokio RwLock (new_game, update_game_state).         *)
(***************************************************************************)
EXTENDS Integers, Sequences, FiniteSets, TLC

(***************************************************************************)
(* Types                                                                   *)
(***************************************************************************)
X == "X"
O == "O"
Player == {X, O}

\* Mutant of opponent: the turn is not handed over.
opponent_same(p) == p

\* Player::opponent
opponent(p) == IF p = X THEN O ELSE X

\* enum Cell { Empty, Occupied(Player) }
Empty == "Empty"
Occupied(p) == p

\* enum GameStatus { InProgress, Draw, Win(Player) }
InProgress == "InProgress"
Draw == "Draw"
Win(p) == IF p = X THEN "WinX" ELSE "WinO"

\* The board is [[Cell; 3]; 3]: its valid indices are 0..2.
Idx == 0 .. 2

\* static WINNING_LINES, in the order of the source.
WINNING_LINES ==
    << << <<0, 0>>, <<0, 1>>, <<0, 2>> >>,
       << <<1, 0>>, <<1, 1>>, <<1, 2>> >>,
       << <<2, 0>>, <<2, 1>>, <<2, 2>> >>,
       << <<0, 0>>, <<1, 0>>, <<2, 0>> >>,
       << <<0, 1>>, <<1, 1>>, <<2, 1>> >>,
       << <<0, 2>>, <<1, 2>>, <<2, 2>> >>,
       << <<0, 0>>, <<1, 1>>, <<2, 2>> >>,
       << <<0, 2>>, <<1, 1>>, <<2, 0>> >> >>

\* impl Default for GameState
DefaultState ==
    [board |-> [r \in Idx |-> [c \in Idx |-> Empty]],
     status |-> InProgress,
     to_play |-> X]

\* struct PlayerMove { row, col }
PlayerMove(r, c) == [row |-> r, col |-> c]

\* Option<PlayerMove>::None
None == [row |-> -1, col |-> -1]

(***************************************************************************)
(* Rules engine                                                            *)
(***************************************************************************)
\* One iteration of the loop of check_status: line i wins when its three
\* cells are equal and not Empty.
LineWins(board, i) ==
    LET line == WINNING_LINES[i]
        c0 == board[line[1][1]][line[1][2]]
        c1 == board[line[2][1]][line[2][2]]
        c2 == board[line[3][1]][line[3][2]]
    IN  c0 # Empty /\ c0 = c1 /\ c1 = c2

\* Mutant of check_status: the full board is tested before the lines, so a
\* move that fills the last cell gives a Draw even when it completes a line.
check_status_draw_first(board) ==
    IF \A r \in Idx : \A c \in Idx : board[r][c] # Empty
    THEN Draw
    ELSE IF \E i \in 1 .. 8 : LineWins(board, i)
    THEN Win(board[WINNING_LINES[CHOOSE i \in 1 .. 8 : LineWins(board, i)][1][1]]
                  [WINNING_LINES[CHOOSE i \in 1 .. 8 : LineWins(board, i)][1][2]])
    ELSE InProgress

\* GameState::check_status: the first winning line in the order of
\* WINNING_LINES decides the winner; a full board without one is a Draw.
check_status(board) ==
    IF \E i \in 1 .. 8 : LineWins(board, i)
    THEN LET first == CHOOSE i \in 1 .. 8 :
                          /\ LineWins(board, i)
                          /\ \A j \in 1 .. (i - 1) : ~LineWins(board, j)
             line == WINNING_LINES[first]
         IN  Win(board[line[1][1]][line[1][2]])
    ELSE IF \A r \in Idx : \A c \in Idx : board[r][c] # Empty
         THEN Draw
         ELSE InProgress

\* Results of try_move: Ok(()), the three Err(Error::InvalidMove(msg)), and
\* the index-out-of-bounds panic of board[row][col].
Ok == "Ok"
ErrNotInProgress == "Game is not in progress"
ErrNotYourTurn == "Not your turn"
ErrOccupied == "Cell already occupied"
Panic == "panic: index out of bounds"

\* Mutant of try_move: the status is not recomputed after the move.
try_move_stale_status(gs, player, mv) ==
    IF gs.status # InProgress
    THEN [state |-> gs, result |-> ErrNotInProgress]
    ELSE IF gs.to_play # player
    THEN [state |-> gs, result |-> ErrNotYourTurn]
    ELSE IF mv.row \notin Idx \/ mv.col \notin Idx
    THEN [state |-> gs, result |-> Panic]
    ELSE IF gs.board[mv.row][mv.col] # Empty
    THEN [state |-> gs, result |-> ErrOccupied]
    ELSE [state |-> [board |-> [gs.board EXCEPT ![mv.row][mv.col] = gs.to_play],
                     status |-> gs.status,
                     to_play |-> opponent(gs.to_play)],
          result |-> Ok]

\* Mutant of try_move: the turn is handed over before the cell is checked,
\* so a move to an occupied cell is rejected with to_play already flipped.
try_move_flip_first(gs, player, mv) ==
    IF gs.status # InProgress
    THEN [state |-> gs, result |-> ErrNotInProgress]
    ELSE IF gs.to_play # player
    THEN [state |-> gs, result |-> ErrNotYourTurn]
    ELSE IF mv.row \notin Idx \/ mv.col \notin Idx
    THEN [state |-> gs, result |-> Panic]
    ELSE IF gs.board[mv.row][mv.col] # Empty
    THEN [state |-> [gs EXCEPT !.to_play = opponent(gs.to_play)],
          result |-> ErrOccupied]
    ELSE LET b == [gs.board EXCEPT ![mv.row][mv.col] = gs.to_play]
         IN  [state |-> [board |-> b,
                         status |-> check_status(b),
                         to_play |-> opponent(gs.to_play)],
              result |-> Ok]

\* Mutant of try_move: the mark is written to a copy of the cell, so the
\* board stays as it was while the turn passes.
try_move_on_copy(gs, player, mv) ==
    IF gs.status # InProgress
    THEN [state |-> gs, result |-> ErrNotInProgress]
    ELSE IF gs.to_play # player
    THEN [state |-> gs, result |-> ErrNotYourTurn]
    ELSE IF mv.row \notin Idx \/ mv.col \notin Idx
    THEN [state |-> gs, result |-> Panic]
    ELSE IF gs.board[mv.row][mv.col] # Empty
    THEN [state |-> gs, result |-> ErrOccupied]
    ELSE [state |-> [board |-> gs.board,
                     status |-> check_status(gs.board),
                     to_play |-> opponent(gs.to_play)],
          result |-> Ok]

\* try_move: the state after the call and what the call returned.
try_move(gs, player, mv) ==
    IF gs.status # InProgress
    THEN [state |-> gs, result |-> ErrNotInProgress]
    ELSE IF gs.to_play # player
    THEN [state |-> gs, result |-> ErrNotYourTurn]
    ELSE IF mv.row \notin Idx \/ mv.col \notin Idx
    THEN [state |-> gs, result |-> Panic]
    ELSE IF gs.board[mv.row][mv.col] # Empty
    THEN [state |-> gs, result |-> ErrOccupied]
    ELSE LET b == [gs.board EXCEPT ![mv.row][mv.col] = Occupied(gs.to_play)]
         IN  [state |-> [board |-> b,
                         status |-> check_status(b),
                         to_play |-> opponent(gs.to_play)],
              result |-> Ok]

(***************************************************************************)
(* Solver                                                                  *)
(***************************************************************************)
\* The nine cells in the scan order of the loops "for r in 0..3, for c in 0..3".
ScanOrder == [k \in 1 .. 9 |-> <<(k - 1) \div 3, (k - 1) % 3>>]

\* Mutant of min_by_key: the greatest key instead of the least (the AI
\* maximizes like the human).
RECURSIVE min_by_key_greatest(_)
min_by_key_greatest(moves) ==
    IF Len(moves) = 1 THEN moves[1]
    ELSE LET rest == min_by_key_greatest(Tail(moves))
         IN  IF moves[1].score > rest.score THEN moves[1] ELSE rest

\* Iterator::min_by_key: the first element with the least key.
RECURSIVE min_by_key(_)
min_by_key(moves) ==
    IF Len(moves) = 1 THEN moves[1]
    ELSE LET rest == min_by_key(Tail(moves))
         IN  IF moves[1].score <= rest.score THEN moves[1] ELSE rest

\* Mutant of max_by_key: the least key instead of the greatest (the human
\* minimizes like the AI).
RECURSIVE max_by_key_least(_)
max_by_key_least(moves) ==
    IF Len(moves) = 1 THEN moves[1]
    ELSE LET rest == max_by_key_least(Tail(moves))
         IN  IF moves[1].score < rest.score THEN moves[1] ELSE rest

\* Iterator::max_by_key: the last element with the greatest key.
RECURSIVE max_by_key(_)
max_by_key(moves) ==
    IF Len(moves) = 1 THEN moves[1]
    ELSE LET rest == max_by_key(Tail(moves))
         IN  IF moves[1].score > rest.score THEN moves[1] ELSE rest

\* What minimax reads of a GameState: the board and the side to play (the
\* status field is never read: minimax calls check_status on the board).
Position(gs) == [board |-> gs.board, to_play |-> gs.to_play]

\* The successor states minimax builds in its loop: new_state for the empty
\* cell ScanOrder[k].
new_state(p, k) ==
    [board |-> [p.board EXCEPT ![ScanOrder[k][1]][ScanOrder[k][2]] = Occupied(p.to_play)],
     to_play |-> opponent(p.to_play)]

\* The indices into ScanOrder of the empty cells, in scan order.
EmptyCells(board) ==
    SelectSeq(<<1, 2, 3, 4, 5, 6, 7, 8, 9>>,
              LAMBDA k : board[ScanOrder[k][1]][ScanOrder[k][2]] = Empty)

\* Mutant of minimax_body: a win of O is scored like a win of X.
minimax_body_sign_slip(p, sub) ==
    IF check_status(p.board) \in {Win(X), Win(O)}
    THEN [score |-> 10, move |-> None]
    ELSE IF check_status(p.board) = Draw THEN [score |-> 0, move |-> None]
    ELSE IF p.to_play = O
    THEN min_by_key([i \in 1 .. Len(EmptyCells(p.board)) |->
             [score |-> sub[new_state(p, EmptyCells(p.board)[i])].score,
              move |-> PlayerMove(ScanOrder[EmptyCells(p.board)[i]][1],
                                  ScanOrder[EmptyCells(p.board)[i]][2])]])
    ELSE max_by_key([i \in 1 .. Len(EmptyCells(p.board)) |->
             [score |-> sub[new_state(p, EmptyCells(p.board)[i])].score,
              move |-> PlayerMove(ScanOrder[EmptyCells(p.board)[i]][1],
                                  ScanOrder[EmptyCells(p.board)[i]][2])]])

\* The body of minimax on position p, its recursive calls answered by sub
\* (a function from positions to results).
minimax_body(p, sub) ==
    LET st == check_status(p.board)
    IN  IF st = Win(X) THEN [score |-> 10, move |-> None]
        ELSE IF st = Win(O) THEN [score |-> -10, move |-> None]
        ELSE IF st = Draw THEN [score |-> 0, move |-> None]
        ELSE LET empties == EmptyCells(p.board)
                 moves == [i \in 1 .. Len(empties) |->
                              [score |-> sub[new_state(p, empties[i])].score,
                               move |-> PlayerMove(ScanOrder[empties[i]][1],
                                                   ScanOrder[empties[i]][2])]]
             IN  IF p.to_play = O THEN min_by_key(moves) ELSE max_by_key(moves)

\* The positions one call deeper in the search: one per empty cell.
Successors(p) ==
    {new_state(p, k) : k \in {i \in 1 .. 9 :
                                p.board[ScanOrder[i][1]][ScanOrder[i][2]] = Empty}}

\* PositionLevels(k)[1] is the set of positions with k empty cells that a
\* search from the default state can meet (alternating marks, X first);
\* the levels k+1 .. 9 follow it.
RECURSIVE PositionLevels(_)
PositionLevels(k) ==
    IF k = 9
    THEN <<{Position(DefaultState)}>>
    ELSE LET above == PositionLevels(k + 1)
         IN  <<UNION {Successors(p) : p \in above[1]}>> \o above

Positions == PositionLevels(0)

\* SolveUpTo(k)[j + 1] is minimax on the positions with j <= k empty cells.
\* This is the recursion of minimax evaluated from the full boards upwards,
\* so that each position is solved once instead of once per path to it.
RECURSIVE SolveUpTo(_)
SolveUpTo(k) ==
    IF k = 0
    THEN <<[p \in Positions[1] |-> minimax_body(p, <<>>)]>>
    ELSE LET below == SolveUpTo(k - 1)
         IN  Append(below, [p \in Positions[k + 1] |-> minimax_body(p, below[k])])

Solved == SolveUpTo(9)

\* Mutant of minimax: the score is returned without the move.
minimax_drops_move(gs) ==
    [score |-> Solved[Len(EmptyCells(gs.board)) + 1][Position(gs)].score,
     move |-> None]

\* minimax: (score, Option<PlayerMove>) of the side to play.
minimax(gs) == Solved[Len(EmptyCells(gs.board)) + 1][Position(gs)]

\* Err(Error::InvalidMove("AI could not find a valid move"))
ErrNoMove == "AI could not find a valid move"

\* Mutant of do_optimal_move: the AI passes its turn.
do_optimal_move_passes(gs) == [state |-> gs, result |-> Ok]

\* Mutant of do_optimal_move: the status is not checked before the search.
do_optimal_move_no_status_check(gs) ==
    IF minimax(gs).move # None
    THEN try_move(gs, O, minimax(gs).move)
    ELSE [state |-> gs, result |-> ErrNoMove]

\* Mutant of do_optimal_move: the move is made for the side to play.
do_optimal_move_as_mover(gs) ==
    IF gs.status # InProgress
    THEN [state |-> gs, result |-> Ok]
    ELSE IF minimax(gs).move # None
    THEN try_move(gs, gs.to_play, minimax(gs).move)
    ELSE [state |-> gs, result |-> ErrNoMove]

\* do_optimal_move: the state after the call and what the call returned.
do_optimal_move(gs) ==
    IF gs.status # InProgress
    THEN [state |-> gs, result |-> Ok]
    ELSE LET optimal_move == minimax(gs).move
         IN  IF optimal_move # None
             THEN try_move(gs, O, optimal_move)
             ELSE [state |-> gs, result |-> ErrNoMove]

(***************************************************************************)
(* Session registry: the handlers run alone                                *)
(***************************************************************************)
\* Placeholders of the model for "no value".
NoState == [board |-> <<>>, status |-> "none", to_play |-> "none"]
NoResponse == [code |-> "none", msg |-> "", game_id |-> 0, game_state |-> NoState]

\* The responses of the handlers: 200 with a body, 400 with the message of
\* Error::InvalidMove, 404, and a handler that panicked (no response).
Created(id, gs) == [code |-> "200", msg |-> "", game_id |-> id, game_state |-> gs]
Updated(gs) == [code |-> "200", msg |-> "", game_id |-> 0, game_state |-> gs]
BadRequest(m) == [code |-> "400", msg |-> m, game_id |-> 0, game_state |-> NoState]
\* Mutant of NotFound: a missing session is reported as a bad request.
NotFound_as_bad_request ==
    [code |-> "400", msg |-> "not found", game_id |-> 0, game_state |-> NoState]
NotFound == [code |-> "404", msg |-> "not found", game_id |-> 0, game_state |-> NoState]
Panicked == [code |-> "panic", msg |-> Panic, game_id |-> 0, game_state |-> NoState]

\* into_response of a failed try_move / do_optimal_move.
ErrorResponse(result) == IF result = Panic THEN Panicked ELSE BadRequest(result)

\* Mutant of Remove: the entry of a finished game is left in the registry.
Remove_nothing(reg, id) == reg

\* Mutant of Insert: every session is stored under the same key.
Insert_same_key(reg, id, gs) ==
    [i \in DOMAIN reg \cup {1} |-> IF i = 1 THEN gs ELSE reg[i]]

\* HashMap::insert and HashMap::remove on the registry.
Insert(reg, id, gs) ==
    [i \in DOMAIN reg \cup {id} |-> IF i = id THEN gs ELSE reg[i]]
Remove(reg, id) == [i \in DOMAIN reg \ {id} |-> reg[i]]

\* Mutant of Store: the state is written to every session of the registry.
Store_everywhere(reg, id, gs) == [i \in DOMAIN reg |-> gs]

\* "*registry.get_mut(&game_id).unwrap() = game_state" on an existing entry.
Store(reg, id, gs) == [reg EXCEPT ![id] = gs]

\* new_game with the fresh identifier id, run alone on registry reg.
new_game(reg, id) ==
    [registry |-> Insert(reg, id, DefaultState),
     response |-> Created(id, DefaultState)]

\* update_game_state after do_optimal_move returned ai: the error response,
\* or the removal of a finished game, or the copy written back.
update_game_state_store(reg, game_id, ai) ==
    IF ai.result # Ok
    THEN [registry |-> reg, response |-> ErrorResponse(ai.result)]
    ELSE IF ai.state.status # InProgress
    THEN [registry |-> Remove(reg, game_id), response |-> Updated(ai.state)]
    ELSE [registry |-> Store(reg, game_id, ai.state),
          response |-> Updated(ai.state)]

\* update_game_state after try_move returned human: the error response, or
\* the AI's reply when the game is still in progress.
update_game_state_reply(reg, game_id, human) ==
    IF human.result # Ok
    THEN [registry |-> reg, response |-> ErrorResponse(human.result)]
    ELSE update_game_state_store(reg, game_id,
             IF human.state.status = InProgress
             THEN do_optimal_move(human.state)
             ELSE [state |-> human.state, result |-> Ok])

\* update_game_state run alone on registry reg.
update_game_state(reg, game_id, player_move) ==
    IF game_id \notin DOMAIN reg
    THEN [registry |-> reg, response |-> NotFound]
    ELSE update_game_state_reply(reg, game_id,
                                 try_move(reg[game_id], X, player_move))

(***************************************************************************)
(* Bounds                                                                  *)
(***************************************************************************)
\* PlayerMove.row and .col are usize: the inputs are drawn from 0 .. MaxCoord,
\* which includes out-of-bounds indices.
MaxCoord == 3
\* The number of identifiers Uuid::new_v4 hands out.
MaxGames == 2
\* The number of requests in flight at once.
MaxTasks == 2
\* The number of requests the clients send in all.
MaxRequests == 4

Coord == 0 .. MaxCoord
Moves == {PlayerMove(r, c) : r \in Coord, c \in Coord}
GameIds == 1 .. MaxGames
Tasks == 1 .. MaxTasks
NoTask == 0

(***************************************************************************)
(* State                                                                   *)
(***************************************************************************)
VARIABLES
    entry,      \* what runs: "engine" (calls of try_move and do_optimal_move),
                \* "test_random", "test_optimal" (mod tests), "client" (main
                \* serving one client that plays one game, a request at a
                \* time), "server" (main serving concurrent clients)
    game,       \* the GameState the engine calls and the tests work on
    ret,        \* what the last call on game returned
    called,     \* the function last called on game
    tpc,        \* where a test is: "human", "ai", "passed", "failed"
    registry,   \* the GameRegistry behind the RwLock
    next_id,    \* how many identifiers Uuid::new_v4 has handed out
    lock,       \* the task holding the write guard, or NoTask
    pc,         \* where each request handler is
    req,        \* each handler's request
    local,      \* each handler's local game_state (the copy of the entry)
    resp,       \* each handler's response
    issued,     \* the number of requests sent so far
    serial,     \* the registry after running, one at a time, the requests
                \* that have acquired the lock so far
    expected    \* the response each request got in that one-at-a-time run

vars == <<entry, game, ret, called, tpc, registry, next_id, lock, pc, req, local,
          resp, issued, serial, expected>>

engineVars == <<game, ret, called, tpc>>
serverVars == <<registry, next_id, lock, pc, req, local, resp, issued,
                serial, expected>>

NoRequest == [op |-> "none", game_id |-> 0, player_move |-> None]
EmptyRegistry == [i \in {} |-> NoState]

Init ==
    /\ entry \in {"engine", "test_random", "test_optimal", "client", "server"}
    /\ game = DefaultState
    /\ ret = "none"
    /\ called = "none"
    /\ tpc = "human"
    /\ registry = EmptyRegistry
    /\ next_id = 0
    /\ lock = NoTask
    /\ pc = [t \in Tasks |-> "idle"]
    /\ req = [t \in Tasks |-> NoRequest]
    /\ local = [t \in Tasks |-> NoState]
    /\ resp = [t \in Tasks |-> NoResponse]
    /\ issued = 0
    /\ serial = EmptyRegistry
    /\ expected = [t \in Tasks |-> NoResponse]

(***************************************************************************)
(* Engine: try_move and do_optimal_move called with any arguments          *)
(***************************************************************************)
\* A call try_move(&mut game, player, mv). A panic ends the run.
CallTryMove(player, mv) ==
    /\ entry = "engine"
    /\ ret # Panic
    /\ LET r == try_move(game, player, mv)
       IN  /\ game' = r.state
           /\ ret' = r.result
           /\ called' = "try_move"
    /\ UNCHANGED <<entry, tpc>>
    /\ UNCHANGED serverVars

\* A call do_optimal_move(&mut game).
CallDoOptimalMove ==
    /\ entry = "engine"
    /\ ret # Panic
    /\ LET r == do_optimal_move(game)
       IN  /\ game' = r.state
           /\ ret' = r.result
           /\ called' = "do_optimal_move"
    /\ UNCHANGED <<entry, tpc>>
    /\ UNCHANGED serverVars

(***************************************************************************)
(* mod tests                                                               *)
(***************************************************************************)
\* The empty cells the random test collects in available_moves.
available_moves(gs) ==
    {mv \in {PlayerMove(r, c) : r \in Idx, c \in Idx} :
        gs.board[mv.row][mv.col] = Empty}

\* The assertion after the loop of each test.
FinalAssert(gs) ==
    IF entry = "test_random"
    THEN IF gs.status # Win(X) THEN "passed" ELSE "failed"
    ELSE IF gs.status = Draw THEN "passed" ELSE "failed"

\* test_ai_is_unbeatable_over_100_random_games, the human's turn of one
\* iteration of the while loop: a random available move.
RandomHumanTurn ==
    /\ entry = "test_random"
    /\ tpc = "human"
    /\ IF game.to_play # X
       THEN tpc' = "failed" /\ UNCHANGED <<game, ret, called>>
       ELSE IF available_moves(game) = {}
       THEN tpc' = FinalAssert(game) /\ UNCHANGED <<game, ret, called>>
       ELSE \E human_move \in available_moves(game) :
              LET r == try_move(game, X, human_move)
              IN  /\ game' = r.state
                  /\ ret' = r.result
                  /\ called' = "try_move"
                  /\ tpc' = IF r.result # Ok THEN "failed"
                            ELSE IF r.state.status # InProgress
                            THEN FinalAssert(r.state)
                            ELSE "ai"
    /\ UNCHANGED entry
    /\ UNCHANGED serverVars

\* test_optimal_vs_optimal_is_always_a_draw, X's turn: the move of minimax.
OptimalHumanTurn ==
    /\ entry = "test_optimal"
    /\ tpc = "human"
    /\ IF game.to_play = X
       THEN LET player_move == minimax(game).move
                r == try_move(game, X, player_move)
            IN  IF player_move = None
                THEN tpc' = "failed" /\ UNCHANGED <<game, ret, called>>
                ELSE /\ game' = r.state
                     /\ ret' = r.result
                     /\ called' = "try_move"
                     /\ tpc' = IF r.result # Ok THEN "failed"
                               ELSE IF r.state.status # InProgress
                               THEN FinalAssert(r.state)
                               ELSE "ai"
       ELSE tpc' = "ai" /\ UNCHANGED <<game, ret, called>>
    /\ UNCHANGED entry
    /\ UNCHANGED serverVars

\* The AI's turn of either test, then the loop condition.
AITurn ==
    /\ entry \in {"test_random", "test_optimal"}
    /\ tpc = "ai"
    /\ IF entry = "test_random" /\ game.to_play # O
       THEN tpc' = "failed" /\ UNCHANGED <<game, ret, called>>
       ELSE IF entry = "test_optimal" /\ game.to_play # O
       THEN tpc' = "human" /\ UNCHANGED <<game, ret, called>>
       ELSE LET r == do_optimal_move(game)
            IN  /\ game' = r.state
                /\ ret' = r.result
                /\ called' = "do_optimal_move"
                /\ tpc' = IF r.result # Ok THEN "failed"
                          ELSE IF r.state.status # InProgress
                          THEN FinalAssert(r.state)
                          ELSE "human"
    /\ UNCHANGED entry
    /\ UNCHANGED serverVars

(***************************************************************************)
(* Server: the handlers as concurrent tasks                                *)
(***************************************************************************)
\* The tasks that serve requests, the number of requests the clients send
\* and the number of games they create: one client playing one game to its
\* end and beyond, or concurrent clients sending MaxRequests requests.
Serving == IF entry = "client" THEN {1} ELSE IF entry = "server" THEN Tasks ELSE {}
MayRequest == entry = "client" \/ issued < MaxRequests
GamesWanted == IF entry = "client" THEN 1 ELSE MaxGames

\* A request arrives and its handler runs up to "state.write().await". The
\* handler reads its inputs only once it holds the guard, so the model draws
\* them there.
Request(t) ==
    /\ t \in Serving
    /\ pc[t] = "idle"
    /\ MayRequest
    /\ pc' = [pc EXCEPT ![t] = "write"]
    /\ issued' = IF entry = "server" THEN issued + 1 ELSE issued
    /\ UNCHANGED <<entry, registry, next_id, lock, req, local, resp, serial, expected>>
    /\ UNCHANGED engineVars

\* Mutant of CanAcquire: the guard is granted while another task holds it.
CanAcquire_always(t) == TRUE

\* RwLock::write grants the guard only when nobody holds the lock.
CanAcquire(t) == lock = NoTask

\* A finished handler's response is sent before any handler goes on (sending
\* touches no shared state).
NoneDone == \A u \in Tasks : pc[u] # "done"

\* What request r does when its handler runs alone on the registry reg.
RunAlone(reg, ids, r) ==
    IF r.op = "new_game"
    THEN new_game(reg, ids + 1)
    ELSE update_game_state(reg, r.game_id, r.player_move)

\* The identifiers handed out when the handlers run one at a time: one per
\* new_game that has acquired the lock.
SerialIds == next_id + Cardinality({u \in Tasks : pc[u] = "locked" /\ req[u].op = "new_game"})

\* The one-at-a-time run goes on with what the request of task t did alone.
RecordAlone(t, alone) ==
    /\ serial' = alone.registry
    /\ expected' = [expected EXCEPT ![t] = alone.response]

\* The handler of task t can go past "state.write().await".
MayAcquire(t) ==
    /\ t \in Serving
    /\ pc[t] = "write"
    /\ NoneDone
    /\ CanAcquire(t)

\* "let mut registry = state.write().await" of the handler of request r.
AcquireWrite(t, r) ==
    /\ MayAcquire(t)
    /\ lock' = t
    /\ pc' = [pc EXCEPT ![t] = "locked"]
    /\ req' = [req EXCEPT ![t] = r]
    /\ RecordAlone(t, RunAlone(serial, SerialIds, r))
    /\ UNCHANGED <<entry, registry, next_id, local, resp, issued>>
    /\ UNCHANGED engineVars

\* POST /api/newgame reaches new_game.
AcquireNewGame(t) ==
    /\ next_id < GamesWanted
    /\ AcquireWrite(t, [op |-> "new_game", game_id |-> 0, player_move |-> None])

\* POST /api/games/{game_id}/move with a PlayerMove reaches update_game_state.
AcquireUpdate(t, game_id, player_move) ==
    AcquireWrite(t, [op |-> "update", game_id |-> game_id,
                     player_move |-> player_move])

\* Mutant of Release: the guard is never dropped.
Release_never(t) == lock

\* Dropping the guard: the lock is released if t holds it.
Release(t) == IF lock = t THEN NoTask ELSE lock

\* The body of new_game: a fresh identifier, the insert, the response.
NewGameInsert(t) ==
    /\ t \in Serving
    /\ NoneDone
    /\ pc[t] = "locked"
    /\ req[t].op = "new_game"
    /\ LET new_game_id == next_id + 1
       IN  /\ next_id' = new_game_id
           /\ registry' = Insert(registry, new_game_id, DefaultState)
           /\ resp' = [resp EXCEPT ![t] = Created(new_game_id, DefaultState)]
    /\ lock' = Release(t)
    /\ pc' = [pc EXCEPT ![t] = "done"]
    /\ UNCHANGED <<entry, req, local, issued, serial, expected>>
    /\ UNCHANGED engineVars

\* update_game_state: registry.get_mut(&game_id).copied() and the human's
\* try_move on the copy; not found, an error or a panic ends the handler.
UpdateTryMove(t) ==
    /\ t \in Serving
    /\ NoneDone
    /\ pc[t] = "locked"
    /\ req[t].op = "update"
    /\ IF req[t].game_id \notin DOMAIN registry
       THEN /\ resp' = [resp EXCEPT ![t] = NotFound]
            /\ lock' = Release(t)
            /\ pc' = [pc EXCEPT ![t] = "done"]
            /\ UNCHANGED local
       ELSE LET r == try_move(registry[req[t].game_id], X, req[t].player_move)
            IN  IF r.result # Ok
                THEN /\ resp' = [resp EXCEPT ![t] = ErrorResponse(r.result)]
                     /\ lock' = Release(t)
                     /\ pc' = [pc EXCEPT ![t] = "done"]
                     /\ UNCHANGED local
                ELSE /\ local' = [local EXCEPT ![t] = r.state]
                     /\ pc' = [pc EXCEPT ![t] = "moved"]
                     /\ UNCHANGED <<resp, lock>>
    /\ UNCHANGED <<entry, registry, next_id, req, issued, serial, expected>>
    /\ UNCHANGED engineVars

\* update_game_state: "if game_state.status == InProgress { do_optimal_move }".
UpdateOptimalMove(t) ==
    /\ t \in Serving
    /\ NoneDone
    /\ pc[t] = "moved"
    /\ LET r == IF local[t].status = InProgress
                THEN do_optimal_move(local[t])
                ELSE [state |-> local[t], result |-> Ok]
       IN  IF r.result # Ok
           THEN /\ resp' = [resp EXCEPT ![t] = ErrorResponse(r.result)]
                /\ lock' = Release(t)
                /\ pc' = [pc EXCEPT ![t] = "done"]
                /\ UNCHANGED local
           ELSE /\ local' = [local EXCEPT ![t] = r.state]
                /\ pc' = [pc EXCEPT ![t] = "replied"]
                /\ UNCHANGED <<resp, lock>>
    /\ UNCHANGED <<entry, registry, next_id, req, issued, serial, expected>>
    /\ UNCHANGED engineVars

\* update_game_state: remove the finished game or write the copy back, then
\* return Ok(Json(game_state)). get_mut(..).unwrap() panics on a missing entry.
UpdateStore(t) ==
    /\ t \in Serving
    /\ NoneDone
    /\ pc[t] = "replied"
    /\ IF local[t].status # InProgress
       THEN /\ registry' = Remove(registry, req[t].game_id)
            /\ resp' = [resp EXCEPT ![t] = Updated(local[t])]
       ELSE IF req[t].game_id \in DOMAIN registry
       THEN /\ registry' = Store(registry, req[t].game_id, local[t])
            /\ resp' = [resp EXCEPT ![t] = Updated(local[t])]
       ELSE /\ registry' = registry
            /\ resp' = [resp EXCEPT ![t] = Panicked]
    /\ lock' = Release(t)
    /\ pc' = [pc EXCEPT ![t] = "done"]
    /\ UNCHANGED <<entry, next_id, req, local, issued, serial, expected>>
    /\ UNCHANGED engineVars

\* The response has been sent: the task is free for the next request.
Respond(t) ==
    /\ t \in Serving
    /\ pc[t] = "done"
    /\ pc' = [pc EXCEPT ![t] = "idle"]
    /\ req' = [req EXCEPT ![t] = NoRequest]
    /\ local' = [local EXCEPT ![t] = NoState]
    /\ resp' = [resp EXCEPT ![t] = NoResponse]
    /\ expected' = [expected EXCEPT ![t] = NoResponse]
    /\ UNCHANGED <<entry, registry, next_id, lock, issued, serial>>
    /\ UNCHANGED engineVars

(***************************************************************************)
(* Specifications                                                          *)
(***************************************************************************)
EngineNext ==
    \/ \E player \in Player, mv \in Moves : CallTryMove(player, mv)
    \/ CallDoOptimalMove

TestsNext ==
    \/ RandomHumanTurn
    \/ OptimalHumanTurn
    \/ AITurn

ServerNext ==
    \/ \E t \in Tasks : Request(t)
    \/ \E t \in Tasks : AcquireNewGame(t)
    \/ \E t \in Tasks :
         /\ MayAcquire(t)
         /\ \E game_id \in GameIds, mv \in Moves : AcquireUpdate(t, game_id, mv)
    \/ \E t \in Tasks : NewGameInsert(t)
    \/ \E t \in Tasks : UpdateTryMove(t)
    \/ \E t \in Tasks : UpdateOptimalMove(t)
    \/ \E t \in Tasks : UpdateStore(t)
    \/ \E t \in Tasks : Respond(t)

Next == EngineNext \/ TestsNext \/ ServerNext

Spec == Init /\ [][Next]_vars

\* The engine calls alone.
EngineInit == Init /\ entry = "engine"
EngineSpec == EngineInit /\ [][EngineNext]_vars

\* The server alone.
ServerInit == Init /\ entry \in {"client", "server"}
ServerSpec == ServerInit /\ [][ServerNext]_vars

\* One client playing one session, and the loop of the random test: games
\* that keep receiving moves. The loop of the test runs on to its end.
SessionInit == Init /\ entry \in {"client", "test_random"}
SessionNext == ServerNext \/ RandomHumanTurn \/ AITurn
SessionSpec ==
    SessionInit /\ [][SessionNext]_vars /\ WF_vars(RandomHumanTurn \/ AITurn)

\* The tests alone; a running test takes its next step.
TestsInit == Init /\ entry \in {"test_random", "test_optimal"}
TestsSpec == TestsInit /\ [][TestsNext]_vars /\ WF_vars(TestsNext)

(***************************************************************************)
(* Claims                                                                  *)
(***************************************************************************)
\* C1: in the random test (any legal X moves, each answered by
\* do_optimal_move), no state has status Win(X), and no assertion of the
\* test fails.
C1_Unbeatable ==
    entry = "test_random" => game.status # Win(X) /\ tpc # "failed"

\* C1 witness: a random game played to its end, which the AI won.
C1_Witness ==
    entry = "test_random" /\ tpc = "passed" /\ game.status = Win(O)

\* C2: in the optimal-versus-optimal test no player ever wins, and the game
\* ends, in a Draw.
C2_OptimalDraw ==
    /\ [](entry = "test_optimal" => game.status \notin {Win(X), Win(O)})
    /\ (entry = "test_optimal") ~> (tpc = "passed" /\ game.status = Draw)

\* C2 witness: the optimal-versus-optimal game has ended in a Draw on a
\* full board.
C2_Witness ==
    /\ entry = "test_optimal"
    /\ tpc = "passed"
    /\ game.status = Draw
    /\ EmptyCells(game.board) = <<>>

\* Every GameState of the state: the one the engine calls and the tests work
\* on, the registry's entries, the handlers' copies, the returned ones.
GameStates ==
    ({game} \cup {registry[id] : id \in DOMAIN registry}
            \cup {local[t] : t \in Tasks}
            \cup {resp[t].game_state : t \in Tasks}) \ {NoState}

\* The number of cells of board holding the mark of player p.
Marks(board, p) ==
    Cardinality({rc \in Idx \X Idx : board[rc[1]][rc[2]] = Occupied(p)})

\* Task t is in the body of its handler, after write().await and before
\* its return.
InHandler(t) == pc[t] \in {"locked", "moved", "replied"}

\* C3: every entry of the registry is InProgress, and when a move request
\* returns a finished game its entry is gone.
C3_Eviction ==
    /\ \A id \in DOMAIN registry : registry[id].status = InProgress
    /\ \A t \in Tasks :
         (/\ pc[t] = "done"
          /\ req[t].op = "update"
          /\ resp[t].code = "200"
          /\ resp[t].game_state.status # InProgress)
         => req[t].game_id \notin DOMAIN registry

\* C3 witness: a move request has returned a finished game and the registry
\* no longer holds its session.
C3_Witness ==
    \E t \in Tasks :
        /\ pc[t] = "done"
        /\ req[t].op = "update"
        /\ resp[t].code = "200"
        /\ resp[t].game_state.status \in {Draw, Win(X), Win(O)}
        /\ req[t].game_id \notin DOMAIN registry

\* C4: a move request on an identifier that is not in the registry ends
\* with 404 and the registry unchanged, and an identifier that was created
\* and is no longer in the registry never comes back.
C4_NotFound ==
    [][/\ \A t \in Tasks :
            (/\ pc[t] = "locked"
             /\ pc'[t] # "locked"
             /\ req[t].op = "update"
             /\ req[t].game_id \notin DOMAIN registry)
            => (pc'[t] = "done" /\ resp'[t].code = "404" /\ registry' = registry)
       /\ \A id \in 1 .. next_id :
            id \notin DOMAIN registry => id \notin DOMAIN registry']_vars

\* C4 witness: a move request on a session that was created and evicted
\* has ended with 404.
C4_Witness ==
    \E t \in Tasks :
        /\ pc[t] = "done"
        /\ req[t].op = "update"
        /\ req[t].game_id \in 1 .. next_id
        /\ resp[t].code = "404"

\* C5: the status of every GameState is check_status of its board.
C5_NoDrift ==
    \A gs \in GameStates : gs.status = check_status(gs.board)

\* C5 witness: a handler returns a game that its AI reply has won.
C5_Witness ==
    \E t \in Tasks :
        /\ pc[t] = "done"
        /\ resp[t].code = "200"
        /\ resp[t].game_state.status = Win(O)

\* C6: in every GameState X is to play when the marks are even and O when X
\* has one more; no move of the player who is not to_play is accepted; a
\* call that changes the GameState was accepted, placed the mark of to_play
\* on one empty cell and handed the turn to the opponent; and a rejected
\* call leaves to_play alone.
C6_Alternation ==
    /\ [](\A gs \in GameStates :
            /\ Marks(gs.board, X) - Marks(gs.board, O) \in {0, 1}
            /\ gs.to_play = IF Marks(gs.board, X) = Marks(gs.board, O) THEN X ELSE O)
    /\ [](\A mv \in Moves :
            try_move(game, opponent(game.to_play), mv).result # Ok)
    /\ [][/\ game' # game =>
               /\ ret' = Ok
               /\ game'.to_play = opponent(game.to_play)
               /\ \E r \in Idx, c \in Idx :
                    /\ game.board[r][c] = Empty
                    /\ game'.board = [game.board EXCEPT ![r][c] = Occupied(game.to_play)]
          /\ ret' # Ok => game'.to_play = game.to_play]_vars

\* C6 witness: X, O, X have moved in turn and O is to play.
C6_Witness ==
    /\ entry = "engine"
    /\ ret = Ok
    /\ Marks(game.board, X) = 2
    /\ Marks(game.board, O) = 1
    /\ game.to_play = O

\* The error values try_move returns.
Rejections == {ErrNotInProgress, ErrNotYourTurn, ErrOccupied}

\* C7: a call that returns an error leaves the GameState as it was (board,
\* status and to_play), no call changes a GameState whose status is Draw or
\* Win, and a move request that ends with 400 leaves the registry as it was.
C7_RejectedUnchanged ==
    [][/\ ret' \in Rejections => game' = game
       /\ game.status # InProgress => game' = game
       /\ \A t \in Tasks :
            (pc[t] # "done" /\ pc'[t] = "done" /\ resp'[t].code = "400")
            => registry' = registry]_vars

\* C7 witness: a call on a finished game was rejected.
C7_Witness ==
    /\ entry = "engine"
    /\ ret = ErrNotInProgress
    /\ game.status = Win(X)

\* C8: a move with a row or a column outside 0 .. 2 is answered with an
\* error value: no call of try_move panics, and a move request with such a
\* move on a session of the registry ends with 400.
C8_OutOfBoundsRejected ==
    /\ ret # Panic
    /\ \A t \in Tasks :
         (/\ pc[t] = "done"
          /\ req[t].op = "update"
          /\ req[t].game_id \in DOMAIN registry
          /\ (req[t].player_move.row \notin Idx \/ req[t].player_move.col \notin Idx))
         => resp[t].code = "400"

\* C9: only the task holding the guard is in a handler body; whenever the
\* lock is free the registry is the one obtained by running the requests one
\* at a time in the order they acquired the lock, and every response is the
\* one of that run; a move request succeeds only on a cell that is empty in
\* the registry, which afterwards holds X there or no longer has the session.
C9_Atomic ==
    /\ [](\A t \in Tasks : InHandler(t) => lock = t)
    /\ [](lock = NoTask => registry = serial)
    /\ [](\A t \in Tasks : pc[t] = "done" => resp[t] = expected[t])
    /\ [][\A t \in Tasks :
            (/\ pc[t] # "done"
             /\ pc'[t] = "done"
             /\ req[t].op = "update"
             /\ resp'[t].code = "200")
            => LET g == req[t].game_id
                   mv == req[t].player_move
               IN  /\ g \in DOMAIN registry
                   /\ registry[g].board[mv.row][mv.col] = Empty
                   /\ g \in DOMAIN registry' =>
                        registry'[g].board[mv.row][mv.col] = Occupied(X)]_vars

\* C9 witness: a request has finished a two-ply turn (the human's move and
\* the AI's reply are stored) while another request was waiting for the lock.
C9_Witness ==
    \E t \in Tasks, u \in Tasks :
        /\ pc[t] = "done"
        /\ req[t].op = "update"
        /\ resp[t].code = "200"
        /\ req[t].game_id \in DOMAIN registry
        /\ Marks(registry[req[t].game_id].board, O) >= 1
        /\ pc[u] = "write"

\* A move request of task u on session g can take the lock now: the
\* condition under which AcquireUpdate(u, g, mv) is enabled, for every mv.
CanUpdate(u, g) == g \in GameIds /\ MayAcquire(u)

\* C10 as claimed: while a request is in its handler body on session A, a
\* waiting request on another session B can take the lock.
C10_NoBlocking ==
    \A t \in Tasks, u \in Tasks, g \in GameIds :
        (/\ InHandler(t)
         /\ req[t].op = "update"
         /\ g # req[t].game_id
         /\ pc[u] = "write")
        => CanUpdate(u, g)

\* C10 as amended: the registry has one lock. While a request is in its
\* handler body no other request, on whatever session, can take the lock;
\* a task outside its handler body does not hold it, and a waiting request
\* can take it whenever it is free.
C10_GlobalLock ==
    /\ \A t \in Tasks, u \in Tasks, g \in GameIds :
         (InHandler(t) /\ pc[u] = "write") => ~CanUpdate(u, g)
    /\ \A t \in Tasks : ~InHandler(t) => lock # t
    /\ \A u \in Tasks, g \in GameIds :
         (lock = NoTask /\ NoneDone /\ pc[u] = "write") => CanUpdate(u, g)

\* C10 witness: a request is in its handler body on session 1 while another
\* request waits and session 2 is in the registry.
C10_Witness ==
    \E t \in Tasks, u \in Tasks :
        /\ InHandler(t)
        /\ req[t].op = "update"
        /\ req[t].game_id = 1
        /\ 2 \in DOMAIN registry
        /\ pc[u] = "write"

(***************************************************************************)
(* Solver: tie-break and value                                             *)
(***************************************************************************)
\* The game state the engine calls and the tests work on is in use.
OnGame == entry \in {"engine", "test_random", "test_optimal"}

\* The score minimax returns for the successor of gs through the empty cell
\* ScanOrder[k].
SuccessorScore(gs, k) == minimax(new_state(Position(gs), k)).score

\* The scores of all successors of gs.
SuccessorScores(gs) ==
    {SuccessorScore(gs, k) : k \in {i \in 1 .. 9 :
        gs.board[ScanOrder[i][1]][ScanOrder[i][2]] = Empty}}

\* The least (O to play) or greatest (X to play) score in the set S.
Extremal(to_play, S) ==
    IF to_play = O
    THEN CHOOSE v \in S : \A w \in S : v <= w
    ELSE CHOOSE v \in S : \A w \in S : v >= w

\* The first empty cell, in row-major order, whose successor has score v.
FirstCellScoring(gs, v) ==
    LET k == CHOOSE k \in 1 .. 9 :
                 /\ gs.board[ScanOrder[k][1]][ScanOrder[k][2]] = Empty
                 /\ SuccessorScore(gs, k) = v
                 /\ \A j \in 1 .. (k - 1) :
                        gs.board[ScanOrder[j][1]][ScanOrder[j][2]] = Empty
                            => SuccessorScore(gs, j) # v
    IN  PlayerMove(ScanOrder[k][1], ScanOrder[k][2])

\* C11: in every InProgress state, whichever side is to play, the move of
\* minimax is the first empty cell in row-major order whose successor score
\* is the extremal one (least for O, greatest for X).
C11_TieBreakFirst ==
    (OnGame /\ game.status = InProgress)
        => minimax(game).move
               = FirstCellScoring(game, Extremal(game.to_play, SuccessorScores(game)))

\* The move of minimax addresses an empty cell of gs and its successor has
\* the score minimax returns.
MoveAchieves(gs, m) ==
    /\ m.move # None
    /\ m.move.row \in Idx /\ m.move.col \in Idx
    /\ gs.board[m.move.row][m.move.col] = Empty
    /\ \E k \in 1 .. 9 :
          /\ ScanOrder[k] = <<m.move.row, m.move.col>>
          /\ SuccessorScore(gs, k) = m.score

\* The result m of minimax on gs is the game-theoretic value: the terminal
\* score of a decided board, else the best successor value for the mover.
IsGameValue(gs, m) ==
    /\ m.score \in {-10, 0, 10}
    /\ check_status(gs.board) = Win(X) => m = [score |-> 10, move |-> None]
    /\ check_status(gs.board) = Win(O) => m = [score |-> -10, move |-> None]
    /\ check_status(gs.board) = Draw => m = [score |-> 0, move |-> None]
    /\ check_status(gs.board) = InProgress =>
          /\ m.score = Extremal(gs.to_play, SuccessorScores(gs))
          /\ MoveAchieves(gs, m)

\* C13: on every board the engine can reach and for the side to move there,
\* minimax returns the game-theoretic value in {-10, 0, 10} (X maximizing,
\* O minimizing); on a decided board the terminal score and no move, on an
\* InProgress board a move to an empty cell.
C13_SolverValue == OnGame => IsGameValue(game, minimax(game))

\* C13 witness: an InProgress board the solver scores as lost for X,
\* with O to play after both sides have moved.
C13_Witness ==
    /\ entry = "engine"
    /\ game.status = InProgress
    /\ game.to_play = O
    /\ minimax(game).score = -10
    /\ Len(EmptyCells(game.board)) <= 5

(***************************************************************************)
(* Session creation                                                        *)
(***************************************************************************)
\* Task t ends new_game in this step.
NewGameEnds(t) == pc[t] = "locked" /\ req[t].op = "new_game" /\ pc'[t] = "done"

\* C12: new_game inserts exactly one entry, under an identifier that was not
\* in the registry, with the default state; the registry grows by one and
\* the returned state is the inserted one.
C12_SessionCreation ==
    [][\A t \in Tasks : NewGameEnds(t) =>
          \E id \in GameIds \ DOMAIN registry :
              /\ DOMAIN registry' = DOMAIN registry \cup {id}
              /\ Cardinality(DOMAIN registry') = Cardinality(DOMAIN registry) + 1
              /\ registry'[id] = DefaultState
              /\ DefaultState.board = [r \in Idx |-> [c \in Idx |-> Empty]]
              /\ DefaultState.status = InProgress
              /\ DefaultState.to_play = X
              /\ resp'[t].code = "200"
              /\ resp'[t].game_id = id
              /\ resp'[t].game_state = registry'[id]]_vars

\* C12 witness: a second session has been created while the first is live.
C12_Witness ==
    \E t \in Tasks :
        /\ pc[t] = "done"
        /\ req[t].op = "new_game"
        /\ resp[t].code = "200"
        /\ Cardinality(DOMAIN registry) = 2
        /\ resp[t].game_id \in DOMAIN registry

(***************************************************************************)
(* AI driver                                                               *)
(***************************************************************************)
\* This step is a call of do_optimal_move on game: any call of the engine,
\* or the call in the loop of a test.
OptimalMoveCalled ==
    /\ called' = "do_optimal_move"
    /\ \/ entry = "engine"
       \/ entry \in {"test_random", "test_optimal"} /\ tpc = "ai" /\ game.to_play = O

\* The move of minimax on gs targets an empty cell of gs and state is gs
\* with the mark of O in that cell.
AnswersWithO(gs, state) ==
    /\ minimax(gs).move # None
    /\ minimax(gs).move.row \in Idx /\ minimax(gs).move.col \in Idx
    /\ gs.board[minimax(gs).move.row][minimax(gs).move.col] = Empty
    /\ state.board = [gs.board EXCEPT
                         ![minimax(gs).move.row][minimax(gs).move.col] = O]

\* C14: do_optimal_move never fails on an InProgress state with O to play,
\* neither in update_game_state nor after legal alternating moves: minimax
\* yields a move, the move targets an empty cell and try_move accepts it.
C14_SolverNeverExhausted ==
    [][/\ (OptimalMoveCalled /\ game.status = InProgress /\ game.to_play = O)
            => (ret' = Ok /\ AnswersWithO(game, game'))
       /\ \A t \in Tasks :
            (pc[t] = "moved" /\ pc'[t] # "moved")
                => /\ pc'[t] = "replied"
                   /\ local[t].status = InProgress
                         => (local[t].to_play = O /\ AnswersWithO(local[t], local'[t]))
      ]_vars

\* C14 witness: the AI has answered the second human move of a session.
C14_Witness ==
    \E t \in Tasks :
        /\ pc[t] = "replied"
        /\ Marks(local[t].board, O) = 2
        /\ Marks(local[t].board, X) = 2

\* C15: on a finished game (Draw or Win) do_optimal_move returns Ok and
\* leaves board, status and to_play as they were.
C15_NoOpWhenFinished ==
    [][(OptimalMoveCalled /\ game.status # InProgress)
          => (ret' = Ok /\ game' = game)]_vars

\* C15 witness: do_optimal_move was called on a game X had won.
C15_Witness ==
    /\ entry = "engine"
    /\ called = "do_optimal_move"
    /\ ret = Ok
    /\ game.status = Win(X)

\* C18: on an InProgress state with X to play do_optimal_move places no
\* mark: it returns the out-of-turn error and leaves the state unchanged.
C18_PlaysOnlyAsO ==
    [][(OptimalMoveCalled /\ game.status = InProgress /\ game.to_play = X)
          => (ret' = ErrNotYourTurn /\ game' = game)]_vars

\* C18 witness: do_optimal_move was refused on a game in progress after
\* both sides had moved.
C18_Witness ==
    /\ entry = "engine"
    /\ called = "do_optimal_move"
    /\ ret = ErrNotYourTurn
    /\ game.status = InProgress
    /\ game.to_play = X
    /\ Marks(game.board, O) >= 1

(***************************************************************************)
(* Win detection                                                           *)
(***************************************************************************)
\* The eight lines of the board as sets of cells: rows, columns, diagonals.
Lines ==
    {{<<r, c>> : c \in Idx} : r \in Idx}
        \cup {{<<r, c>> : r \in Idx} : c \in Idx}
        \cup {{<<i, i>> : i \in Idx}, {<<i, 2 - i>> : i \in Idx}}

\* Player p holds all three cells of some line of board.
HasLine(board, p) ==
    \E line \in Lines : \A rc \in line : board[rc[1]][rc[2]] = Occupied(p)

\* No cell of board is Empty.
Full(board) == \A r \in Idx : \A c \in Idx : board[r][c] # Empty

\* update_game_state with move mv on a registry holding gs alone, under 1.
AloneOn(gs, mv) == update_game_state([i \in {1} |-> gs], 1, mv)

\* On a session in state gs, move mv of the human is answered with exactly
\* the state try_move leaves, and the session is evicted.
EndsWithoutReply(gs, mv) ==
    /\ AloneOn(gs, mv).response = Updated(try_move(gs, X, mv).state)
    /\ AloneOn(gs, mv).registry = EmptyRegistry

\* C16: an accepted move on an InProgress state that completes a line for
\* the mover gives Win(mover) in that same call, also when it fills the
\* last empty cell; Draw is the status only of a full board without a
\* uniformly occupied line; in update_game_state a human move that wins (or
\* otherwise ends the game) is not followed by an AI move.
C16_ImmediateWin ==
    /\ [](\A gs \in GameStates :
            gs.status = Draw
                => (Full(gs.board) /\ ~HasLine(gs.board, X) /\ ~HasLine(gs.board, O)))
    /\ [](OnGame =>
            \A mv \in Moves :
                (try_move(game, X, mv).result = Ok
                    /\ HasLine(try_move(game, X, mv).state.board, X))
                        => EndsWithoutReply(game, mv))
    /\ [][/\ (OnGame /\ game.status = InProgress /\ game'.board # game.board
                /\ HasLine(game'.board, game.to_play))
               => game'.status = Win(game.to_play)
          /\ \A t \in Tasks :
               (pc[t] = "moved" /\ pc'[t] # "moved" /\ local[t].status # InProgress)
                     => (pc'[t] = "replied" /\ local'[t] = local[t])
         ]_vars

\* C16 witness: X has completed a line with the move that filled the last
\* empty cell, and the game is won, not drawn.
C16_Witness ==
    /\ entry = "engine"
    /\ Full(game.board)
    /\ HasLine(game.board, X)
    /\ game.status = Win(X)

(***************************************************************************)
(* Session isolation                                                       *)
(***************************************************************************)
\* Task t takes a step of the body of its handler.
HandlerStep(t) == InHandler(t) /\ pc'[t] # pc[t]

\* Every session other than those in ids is in the registry after the step
\* as it was before.
OthersUnchanged(ids) ==
    \A i \in DOMAIN registry \ ids :
        i \in DOMAIN registry' /\ registry'[i] = registry[i]

\* C17: update_game_state on identifier g, whether it succeeds, fails or
\* evicts g, leaves every entry other than g unchanged and adds no entry;
\* new_game leaves every entry that existed unchanged.
C17_SessionIsolation ==
    [][\A t \in Tasks :
          /\ (HandlerStep(t) /\ req[t].op = "update")
                => /\ OthersUnchanged({req[t].game_id})
                   /\ DOMAIN registry' \subseteq DOMAIN registry
          /\ (HandlerStep(t) /\ req[t].op = "new_game")
                => OthersUnchanged({})
      ]_vars

\* C17 witness: a move on one session has been stored while the other
\* session, itself already past its first move, is there as it was.
C17_Witness ==
    \E t \in Tasks :
        /\ pc[t] = "done"
        /\ req[t].op = "update"
        /\ resp[t].code = "200"
        /\ DOMAIN registry = {1, 2}
        /\ registry[req[t].game_id] = resp[t].game_state
        /\ \A i \in DOMAIN registry : registry[i] # DefaultState
        /\ registry[1] # registry[2]

(***************************************************************************)
(* Stored-state shape                                                      *)
(***************************************************************************)
\* C19: every entry of the registry has X to play and as many X as O marks
\* on its board; so update_game_state never answers "Game is not in
\* progress" or "Not your turn": the only rejection it produces is "Cell
\* already occupied".
C19_StoredShape ==
    /\ \A i \in DOMAIN registry :
          /\ registry[i].to_play = X
          /\ Marks(registry[i].board, X) = Marks(registry[i].board, O)
    /\ \A t \in Tasks :
          /\ resp[t].msg \notin {ErrNotInProgress, ErrNotYourTurn}
          /\ resp[t].code = "400" => resp[t].msg = ErrOccupied

\* C19 witness: a move to an occupied cell has been rejected on a session
\* that holds two marks of each player.
C19_Witness ==
    \E t \in Tasks :
        /\ pc[t] = "done"
        /\ resp[t].code = "400"
        /\ resp[t].msg = ErrOccupied
        /\ req[t].game_id \in DOMAIN registry
        /\ Marks(registry[req[t].game_id].board, X) = 2
        /\ Marks(registry[req[t].game_id].board, O) = 2

(***************************************************************************)
(* Game length                                                             *)
(***************************************************************************)
\* The number of occupied cells of board.
OccupiedCells(board) == Marks(board, X) + Marks(board, O)

\* Task t ends a successful update_game_state in this step.
UpdateSucceeds(t) ==
    /\ pc[t] = "replied"
    /\ pc'[t] = "done"
    /\ resp'[t].code = "200"
    /\ req[t].game_id \in DOMAIN registry

\* The step from the stored state before to the returned state after adds
\* one X mark, and two marks in all while the game goes on, one or two
\* when it ends; a game that ends is evicted, and the fifth X mark ends it.
Advances(before, after, evicted) ==
    /\ Marks(after.board, X) = Marks(before.board, X) + 1
    /\ after.status = InProgress
          => OccupiedCells(after.board) = OccupiedCells(before.board) + 2
    /\ after.status # InProgress
          => OccupiedCells(after.board) - OccupiedCells(before.board) \in {1, 2}
    /\ evicted <=> after.status # InProgress
    /\ Marks(after.board, X) <= 5
    /\ Marks(after.board, X) = 5 => evicted

\* C20: each successful update_game_state strictly increases the number of
\* occupied cells of its session (by 2 while the game stays InProgress, by
\* 1 or 2 when it ends), so a session is evicted after at most 5 successful
\* move requests; a game that keeps receiving legal moves ends.
C20_BoundedLength ==
    /\ [](\A i \in DOMAIN registry : Marks(registry[i].board, X) <= 4)
    /\ [][\A t \in Tasks :
            UpdateSucceeds(t)
                => Advances(registry[req[t].game_id], resp'[t].game_state,
                            req[t].game_id \notin DOMAIN registry')]_vars
    /\ [][(entry = "test_random" /\ game' # game)
            => OccupiedCells(game'.board) = OccupiedCells(game.board) + 1]_vars
    /\ (entry = "test_random")
            ~> (tpc \in {"passed", "failed"} /\ game.status # InProgress)

\* C20 witness: the fifth successful move request of a session has filled
\* the board, and the session is gone.
C20_Witness ==
    \E t \in Tasks :
        /\ pc[t] = "done"
        /\ req[t].op = "update"
        /\ resp[t].code = "200"
        /\ Marks(resp[t].game_state.board, X) = 5
        /\ resp[t].game_state.status # InProgress
        /\ req[t].game_id \notin DOMAIN registry

====
